---- MODULE Spec2Model ----
(***************************************************************************)
(* The filter and aggregation pipeline of the airline delay dashboard      *)
(* (app.py).  The script runs top to bottom once per user interaction:     *)
(* the first run loads and caches the base table and every widget returns  *)
(* its default; every later run is triggered by one edit of one sidebar    *)
(* widget and recomputes every derived view from the cached base table.    *)
(*                                                                         *)
(* Data representation                                                     *)
(*   - a DataFrame is a sequence of rows, a row is a function from column  *)
(*     names to cells;                                                     *)
(*   - a float cell is <<v>> for the number v and <<>> for NaN (missing);  *)
(*   - a ratio (delay_rate, Delay %) is <<n, d>>: the number n/d in lowest *)
(*     terms when d > 0, NaN when it is <<0, 0>> (0/0), and +inf when it   *)
(*     is <<1, 0>> (x/0 with x > 0), as numpy float division gives.        *)
(***************************************************************************)
EXTENDS Integers, Sequences, FiniteSets, TLC

VARIABLES
    delay_csv,             \* rows of Airline_Delay_Cause.csv (the input file)
    cache,                 \* st.cache_data store of load_data: <<>> or <<df>>
    merged_df,             \* the base table of the current run
    runs,                  \* script runs so far in this session
    delay_widget,          \* state of the "Select Delay Type(s)" multiselect
    selected_years,
    selected_months,
    selected_delay_types,  \* the script variable, after normalisation
    selected_hours,
    selected_airlines,
    selected_airports,
    filtered_df,
    delay_percentage,
    total_delay_time,      \* KPI "Total Delay Time (min)"
    trend,                 \* <<>> when the trend block is skipped, else <<trend_df>>
    delay_rate_chart,      \* delay_rate_df.head(10) handed to px.bar
    geo_df,
    emitted                \* warnings and charts the run emitted

vars == <<delay_csv, cache, merged_df, runs, delay_widget, selected_years,
          selected_months, selected_delay_types, selected_hours,
          selected_airlines, selected_airports, filtered_df, delay_percentage,
          total_delay_time, trend, delay_rate_chart, geo_df, emitted>>

----------------------------------------------------------------------------
(* Bounds of the model *)

\* rows of the delay file
MaxRows == 2
\* script runs in one session (the first run and the widget edits after it)
MaxRuns == 4

----------------------------------------------------------------------------
(* Cells *)

NaN == <<>>
Num(v) == <<v>>
IsNa(c) == Len(c) = 0
\* the value a skipna sum adds for a cell
Val(c) == IF IsNa(c) THEN 0 ELSE c[1]

Min(a, b) == IF a <= b THEN a ELSE b

RECURSIVE Gcd(_, _)
Gcd(a, b) == IF b = 0 THEN a ELSE Gcd(b, a % b)

\* float division n / d of two non-negative numbers
Div(n, d) ==
    IF d = 0
    THEN (IF n = 0 THEN <<0, 0>> ELSE <<1, 0>>)
    ELSE LET g == Gcd(n, d) IN <<n \div g, d \div g>>

RatioIsNa(q) == q = <<0, 0>>
RatioIsInf(q) == q = <<1, 0>>
RatioIsFinite(q) == q[2] > 0

\* a + b on non-NaN ratios
RatioAdd(a, b) ==
    IF RatioIsInf(a) \/ RatioIsInf(b) THEN <<1, 0>>
    ELSE Div(a[1] * b[2] + b[1] * a[2], a[2] * b[2])

\* a > b on non-NaN ratios
RatioGreater(a, b) ==
    IF RatioIsInf(a) THEN ~RatioIsInf(b)
    ELSE IF RatioIsInf(b) THEN FALSE
    ELSE a[1] * b[2] > b[1] * a[2]

----------------------------------------------------------------------------
(* DataFrame helpers *)

\* df[name] = values: the row with one more (or an overwritten) column
AddCol(r, c, v) == [k \in DOMAIN r \cup {c} |-> IF k = c THEN v ELSE r[k]]

Rows(df) == {df[i] : i \in 1..Len(df)}

\* Series.unique() as a set
Unique(df, c) == {r[c] : r \in Rows(df)}

\* Series.sum() of an integer column
RECURSIVE SumInt(_, _)
SumInt(df, c) ==
    IF df = <<>> THEN 0 ELSE df[1][c] + SumInt(Tail(df), c)

\* Series.sum() of a float column: NaN cells are skipped
RECURSIVE SumCol(_, _)
SumCol(df, c) ==
    IF df = <<>> THEN 0 ELSE Val(df[1][c]) + SumCol(Tail(df), c)

\* df[cols].sum(axis=1) for one row: NaN cells are skipped
RECURSIVE RowSum(_, _)
RowSum(r, cols) ==
    IF cols = {} THEN 0
    ELSE LET c == CHOOSE x \in cols : TRUE
         IN Val(r[c]) + RowSum(r, cols \ {c})

\* the ascending sequence of a set of integers
RECURSIVE Sorted(_)
Sorted(S) ==
    IF S = {} THEN <<>>
    ELSE LET m == CHOOSE x \in S : \A y \in S : x <= y
         IN <<m>> \o Sorted(S \ {m})

----------------------------------------------------------------------------
(* Input files *)

DelayCols ==
    {"carrier_delay", "weather_delay", "nas_delay", "security_delay",
     "late_aircraft_delay"}

\* one row of Airline_Delay_Cause.csv
DelayRow(y, m, a, cn, h, fl, dl, cd, wd, nd, sd, ld) ==
    [year |-> y, month |-> m, airport |-> a, carrier_name |-> cn, hour |-> h,
     arr_flights |-> fl, arr_del15 |-> dl,
     carrier_delay |-> cd, weather_delay |-> wd, nas_delay |-> nd,
     security_delay |-> sd, late_aircraft_delay |-> ld]

\* The rows a delay file is drawn from.  Delayed arrivals never exceed
\* arrivals; a row without arrivals carries no cause minutes.
RowPool ==
    << DelayRow(2015, 1, "ATL", "AA", Num(0), 2, 1,
                Num(10), Num(5), Num(0), Num(0), Num(0)),
       DelayRow(2015, 2, "ATL", "AA", Num(1), 2, 1,
                Num(10), Num(5), Num(0), Num(0), Num(0)),
       DelayRow(2016, 1, "JFK", "DL", NaN, 1, 1,
                NaN, Num(0), Num(7), Num(0), Num(3)),
       DelayRow(2015, 1, "JFK", "AA", Num(0), 0, 0,
                NaN, NaN, NaN, NaN, NaN),
       DelayRow(2016, 2, "ZZZ", "DL", Num(1), 3, 2,
                Num(4), Num(0), Num(0), Num(1), Num(0)) >>

\* strictly increasing index sequences over the pool, at most n long
RECURSIVE Picks(_, _)
Picks(from, n) ==
    {<<>>} \cup
    (IF n = 0 THEN {}
     ELSE UNION {{<<i>> \o p : p \in Picks(i + 1, n - 1)} :
                 i \in from..Len(RowPool)})

DropHour(r) == [k \in DOMAIN r \ {"hour"} |-> r[k]]

\* the delay files: with an hour column, or without one
DelayFiles ==
    UNION {{[k \in 1..Len(p) |-> RowPool[p[k]]],
            [k \in 1..Len(p) |-> DropHour(RowPool[p[k]])]} :
           p \in Picks(1, MaxRows)}

\* airports.csv, the airport reference table
airports_df ==
    << [IATA |-> "ATL", airport_name |-> "Atlanta Intl",
        LATITUDE |-> 33, LONGITUDE |-> -84],
       [IATA |-> "JFK", airport_name |-> "Kennedy Intl",
        LATITUDE |-> 40, LONGITUDE |-> -73] >>

----------------------------------------------------------------------------
(* load_data *)

month_order ==
    <<"Jan", "Feb", "Mar", "Apr", "May", "Jun",
      "Jul", "Aug", "Sep", "Oct", "Nov", "Dec">>

\* pd.to_datetime(month, format='%m').strftime('%b')
MonthName(m) == month_order[m]

\* the row of an inner join: the columns of both sides
JoinRow(l, r) == [k \in DOMAIN l \cup DOMAIN r |-> IF k \in DOMAIN l THEN l[k] ELSE r[k]]

\* delay_df.merge(airports_df, left_on='airport', right_on='IATA'): an inner
\* join in the order of the left rows
RECURSIVE Merge(_, _)
Merge(left, right) ==
    IF left = <<>> THEN <<>>
    ELSE LET l == left[1]
             hits == SelectSeq(right, LAMBDA r : r.IATA = l.airport)
         IN [i \in 1..Len(hits) |-> JoinRow(l, hits[i])] \o Merge(Tail(left), right)

\* the five cause columns summed row-wise, NaN counted as 0
TotalDelayNaPropagates(r) ==
    IF \E c \in DelayCols : IsNa(r[c]) THEN NaN ELSE Num(RowSum(r, DelayCols))
TotalDelay(r) == Num(RowSum(r, DelayCols))

\* the body of load_data
ReadAndMerge(csv) ==
    LET m == Merge(csv, airports_df)
        t == [i \in 1..Len(m) |-> AddCol(m[i], "Total_Delay", TotalDelay(m[i]))]
    IN [i \in 1..Len(t) |-> AddCol(t[i], "month_name", MonthName(t[i].month))]

\* load_data under st.cache_data: the stored table when there is one
load_data(store, csv) == IF store = <<>> THEN ReadAndMerge(csv) ELSE store[1]

----------------------------------------------------------------------------
(* Sidebar *)

TotalKey == "Total Delay"

delay_type_options ==
    [t \in {"Carrier Delay", "Weather Delay", "NAS Delay", "Security Delay",
            "Late Aircraft Delay", TotalKey} |->
        CASE t = "Carrier Delay" -> "carrier_delay"
          [] t = "Weather Delay" -> "weather_delay"
          [] t = "NAS Delay" -> "nas_delay"
          [] t = "Security Delay" -> "security_delay"
          [] t = "Late Aircraft Delay" -> "late_aircraft_delay"
          [] OTHER -> "Total_Delay"]

HasCol(df, c) == df # <<>> /\ c \in DOMAIN df[1]

unique_years(df) == Unique(df, "year")
\* the month labels: all twelve are offered
unique_months == {month_order[i] : i \in 1..Len(month_order)}
\* the non-missing hours, or nothing when the table has no hour column
unique_hours(df) ==
    IF HasCol(df, "hour") THEN {h \in Unique(df, "hour") : ~IsNa(h)} ELSE {}
all_airlines(df) == Unique(df, "carrier_name")
all_airports(df) == Unique(df, "airport_name")

\* the conflict of "Total Delay" with another delay type
Conflict(picked) == TotalKey \in picked /\ Cardinality(picked) > 1

NormalizeKeepsAll(picked) == picked
\* lines 60-62: "Total Delay" overrides every other delay type
Normalize(picked) == IF Conflict(picked) THEN {TotalKey} ELSE picked

selected_delay_columns(types) == {delay_type_options[t] : t \in types}

----------------------------------------------------------------------------
(* The pipeline: lines 76-200 of the script *)

\* lines 76-81: the rows matching the year, month, carrier and airport sets
ApplyMask(df, ys, ms, al, ap) ==
    SelectSeq(df, LAMBDA r : /\ r.year \in ys
                             /\ r.month_name \in ms
                             /\ r.carrier_name \in al
                             /\ r.airport_name \in ap)

\* lines 83-84: the hour filter runs only when selected_hours is non-empty
ApplyHours(df, hs) ==
    IF hs # {} THEN SelectSeq(df, LAMBDA r : r.hour \in hs) ELSE df

\* lines 76-84
Filter(df, ys, ms, hs, al, ap) == ApplyHours(ApplyMask(df, ys, ms, al, ap), hs)

\* line 86: Selected_Delay of one row
SelectedDelayFirstOnly(r, cols) ==
    IF cols = {} THEN Num(0)
    ELSE Num(Val(r[CHOOSE c \in cols : TRUE]))
SelectedDelay(r, cols) == Num(RowSum(r, cols))

\* lines 86 and 153 assign columns to filtered_df, which boolean indexing
\* made a new frame: merged_df is left as it was
BaseAfterAssignInPlace(base, kept, cols) ==
    [i \in 1..Len(base) |->
        AddCol(base[i], "Selected_Delay", SelectedDelay(base[i], cols))]
BaseAfterAssign(base, kept, cols) == base

\* line 94
DelayPercentageUnguarded(total_delays, total_flights) ==
    Div(total_delays * 100, total_flights)
DelayPercentage(total_delays, total_flights) ==
    IF total_flights > 0 THEN Div(total_delays * 100, total_flights) ELSE <<0, 1>>

\* line 123: the trend block runs when more than one month label is left
TrendShownWhenAnyRow(df) == df # <<>>
TrendShown(df) == Cardinality(Unique(df, "month_name")) > 1

\* lines 125-129: Selected_Delay summed per (year, month), in year, month order
TrendDf(df) ==
    LET ys == Sorted(Unique(df, "year"))
        ms == Sorted(Unique(df, "month"))
        Group(y, m) == SelectSeq(df, LAMBDA r : r.year = y /\ r.month = m)
        Line(y, m) == [year |-> y, month |-> m, month_name |-> MonthName(m),
                       Selected_Delay |-> SumCol(Group(y, m), "Selected_Delay")]
        OfYear(y) == LET present == SelectSeq(ms, LAMBDA m : Group(y, m) # <<>>)
                     IN [k \in 1..Len(present) |-> Line(y, present[k])]
        RECURSIVE Years(_)
        Years(k) == IF k > Len(ys) THEN <<>> ELSE OfYear(ys[k]) \o Years(k + 1)
    IN Years(1)

\* line 153: delay_rate of one row
DelayRate(r) == Div(r.arr_del15, r.arr_flights)

\* Series.mean() of the delay_rate column: NaN cells are skipped, and the mean
\* of no value is NaN
RECURSIVE RatioSum(_)
RatioSum(qs) ==
    IF qs = <<>> THEN <<0, 1>> ELSE RatioAdd(qs[1], RatioSum(Tail(qs)))

MeanRate(df) ==
    LET all == [i \in 1..Len(df) |-> df[i].delay_rate]
        qs == SelectSeq(all, LAMBDA q : ~RatioIsNa(q))
        s == RatioSum(qs)
    IN IF qs = <<>> THEN <<0, 0>>
       ELSE IF RatioIsInf(s) THEN s
       ELSE Div(s[1], s[2] * Len(qs))

\* the airport names in ascending order, as groupby sorts its keys
NamesAscending == <<"Atlanta Intl", "Kennedy Intl">>

\* line 154: one line per airport of the frame, keys ascending
GroupMeanRate(df) ==
    LET names == SelectSeq(NamesAscending,
                           LAMBDA n : n \in Unique(df, "airport_name"))
    IN [k \in 1..Len(names) |->
          [airport_name |-> names[k],
           delay_rate |-> MeanRate(SelectSeq(df,
                              LAMBDA r : r.airport_name = names[k]))]]

\* whether line a sorts before line b: descending rate, NaN last
Before(a, b) ==
    IF RatioIsNa(a.delay_rate) THEN FALSE
    ELSE IF RatioIsNa(b.delay_rate) THEN TRUE
    ELSE RatioGreater(a.delay_rate, b.delay_rate)

\* line with the lines of s kept in order and x put after its equals
RECURSIVE Insert(_, _)
Insert(s, x) ==
    IF s = <<>> THEN <<x>>
    ELSE IF Before(x, s[1]) THEN <<x>> \o s
    ELSE <<s[1]>> \o Insert(Tail(s), x)

\* line 155: sort_values(by='delay_rate', ascending=False)
RECURSIVE SortByRate(_)
SortByRate(s) ==
    IF s = <<>> THEN <<>>
    ELSE Insert(SortByRate(SubSeq(s, 1, Len(s) - 1)), s[Len(s)])

\* head(10) of the charts
TopN == 10
HeadN(s, n) == SubSeq(s, 1, Min(n, Len(s)))

\* lines 164-165: the rows with every selected column present and a positive
\* Selected_Delay
GeoKeepsZero(df, cols) ==
    SelectSeq(df, LAMBDA r : \A c \in cols : ~IsNa(r[c]))
Geo(df, cols) ==
    SelectSeq(df, LAMBDA r : /\ \A c \in cols : ~IsNa(r[c])
                             /\ Val(r.Selected_Delay) > 0)

----------------------------------------------------------------------------
(* One run of the script *)

Run(ys, ms, dw, hs, al, ap) ==
    LET base == load_data(cache, delay_csv)
        types == Normalize(dw)
        cols == selected_delay_columns(types)
        kept == Filter(base, ys, ms, hs, al, ap)
        withDelay == [i \in 1..Len(kept) |->
                        AddCol(kept[i], "Selected_Delay",
                               SelectedDelay(kept[i], cols))]
        withRate == [i \in 1..Len(withDelay) |->
                        AddCol(withDelay[i], "delay_rate",
                               DelayRate(withDelay[i]))]
        geo == Geo(withRate, cols)
    IN /\ cache' = <<base>>
       /\ merged_df' = BaseAfterAssign(base, kept, cols)
       /\ runs' = runs + 1
       /\ delay_widget' = dw
       /\ selected_years' = ys
       /\ selected_months' = ms
       /\ selected_delay_types' = types
       /\ selected_hours' = hs
       /\ selected_airlines' = al
       /\ selected_airports' = ap
       /\ filtered_df' = withRate
       /\ delay_percentage' =
              DelayPercentage(SumInt(withDelay, "arr_del15"),
                              SumInt(withDelay, "arr_flights"))
       /\ total_delay_time' = SumCol(withDelay, "Selected_Delay")
       /\ trend' = IF TrendShown(withDelay) THEN <<TrendDf(withDelay)>> ELSE <<>>
       /\ delay_rate_chart' = HeadN(SortByRate(GroupMeanRate(withRate)), TopN)
       /\ geo_df' = geo
       /\ emitted' =
              (IF Conflict(dw) THEN {"delay_type_warning"} ELSE {})
              \cup (IF TrendShown(withDelay) THEN {"trend_chart"} ELSE {})
              \cup (IF geo # <<>> THEN {"map"} ELSE {"no_data_warning"})
       /\ UNCHANGED delay_csv

\* one edit of a multiselect among the given options: an option removed, an
\* option added, or the selection cleared
Edits(cur, options) ==
    {cur \ {x} : x \in cur \cap options}
    \cup {cur \cup {x} : x \in options \ cur}
    \cup {{}}

Init ==
    /\ delay_csv \in DelayFiles
    /\ cache = <<>>
    /\ merged_df = <<>>
    /\ runs = 0
    /\ delay_widget = {}
    /\ selected_years = {}
    /\ selected_months = {}
    /\ selected_delay_types = {}
    /\ selected_hours = {}
    /\ selected_airlines = {}
    /\ selected_airports = {}
    /\ filtered_df = <<>>
    /\ delay_percentage = <<0, 1>>
    /\ total_delay_time = 0
    /\ trend = <<>>
    /\ delay_rate_chart = <<>>
    /\ geo_df = <<>>
    /\ emitted = {}

\* the first run: load_data reads the files, every widget returns its default
FirstRun ==
    /\ runs = 0
    /\ LET base == load_data(cache, delay_csv)
       IN Run(unique_years(base), unique_months, {TotalKey}, unique_hours(base),
              all_airlines(base), all_airports(base))

Editable == runs >= 1 /\ runs < MaxRuns

ChangeYears ==
    /\ Editable
    /\ \E ys \in Edits(selected_years, unique_years(merged_df)) :
          Run(ys, selected_months, delay_widget, selected_hours,
              selected_airlines, selected_airports)

\* the month labels edited are those some row of the table carries
ChangeMonths ==
    /\ Editable
    /\ \E ms \in Edits(selected_months, Unique(merged_df, "month_name")) :
          Run(selected_years, ms, delay_widget, selected_hours,
              selected_airlines, selected_airports)

ChangeDelayTypes ==
    /\ Editable
    /\ \E dw \in Edits(delay_widget, DOMAIN delay_type_options) :
          Run(selected_years, selected_months, dw, selected_hours,
              selected_airlines, selected_airports)

\* the hour widget is only there when the table has hours
ChangeHours ==
    /\ Editable
    /\ unique_hours(merged_df) # {}
    /\ \E hs \in Edits(selected_hours, unique_hours(merged_df)) :
          Run(selected_years, selected_months, delay_widget, hs,
              selected_airlines, selected_airports)

ChangeAirlines ==
    /\ Editable
    /\ \E al \in Edits(selected_airlines, all_airlines(merged_df)) :
          Run(selected_years, selected_months, delay_widget, selected_hours,
              al, selected_airports)

ChangeAirports ==
    /\ Editable
    /\ \E ap \in Edits(selected_airports, all_airports(merged_df)) :
          Run(selected_years, selected_months, delay_widget, selected_hours,
              selected_airlines, ap)

Next ==
    \/ FirstRun
    \/ ChangeYears
    \/ ChangeMonths
    \/ ChangeDelayTypes
    \/ ChangeHours
    \/ ChangeAirlines
    \/ ChangeAirports

Spec == Init /\ [][Next]_vars

----------------------------------------------------------------------------
(* The claims *)

\* a run of the script has completed
Ran == runs >= 1

\* the hour dimension is there: the table has an hour column with hours in it
HourDimension == unique_hours(merged_df) # {}

\* the number of rows the filters keep
Count(ys, ms, hs, al, ap) == Len(Filter(merged_df, ys, ms, hs, al, ap))

\* C1: an empty selected set on any filter dimension (years, months,
\* carriers, airports, and hours when the table has them) leaves no row in
\* the filtered set.
C1_EmptySelectionEmptyResult ==
    Ran =>
      ((\/ selected_years = {}
        \/ selected_months = {}
        \/ selected_airlines = {}
        \/ selected_airports = {}
        \/ (HourDimension /\ selected_hours = {}))
       => filtered_df = <<>>)

\* C2: shrinking one selected set (years, months, carriers, airports or
\* hours) and leaving the others alone never increases the number of
\* filtered rows.  (A month label no row carries matches nothing, so the
\* month sets compared are those of the labels the table carries.)
C2_ShrinkNeverGrows ==
    Ran =>
      /\ \A ys \in SUBSET selected_years :
            Count(ys, selected_months, selected_hours, selected_airlines,
                  selected_airports) <= Len(filtered_df)
      /\ \A ms \in SUBSET (selected_months \cap Unique(merged_df, "month_name")) :
            Count(selected_years, ms, selected_hours, selected_airlines,
                  selected_airports) <= Len(filtered_df)
      /\ \A al \in SUBSET selected_airlines :
            Count(selected_years, selected_months, selected_hours, al,
                  selected_airports) <= Len(filtered_df)
      /\ \A ap \in SUBSET selected_airports :
            Count(selected_years, selected_months, selected_hours,
                  selected_airlines, ap) <= Len(filtered_df)
      /\ HourDimension =>
            \A hs \in SUBSET selected_hours :
               Count(selected_years, selected_months, hs, selected_airlines,
                     selected_airports) <= Len(filtered_df)

\* C3: when the delay-type widget holds "Total Delay" and another type, the
\* run uses exactly {"Total Delay"} (the selected columns are Total_Delay
\* alone), emits the warning and goes on to its last step; any other
\* selection is used as it is, without the warning.
C3_TotalDelayOverrides ==
    Ran =>
      IF TotalKey \in delay_widget /\ Cardinality(delay_widget) > 1
      THEN /\ selected_delay_types = {TotalKey}
           /\ selected_delay_columns(selected_delay_types) = {"Total_Delay"}
           /\ "delay_type_warning" \in emitted
           /\ \A r \in Rows(filtered_df) : r.Selected_Delay = r.Total_Delay
           /\ ("map" \in emitted \/ "no_data_warning" \in emitted)
      ELSE /\ selected_delay_types = delay_widget
           /\ "delay_type_warning" \notin emitted

C3_Witness ==
    /\ Ran
    /\ TotalKey \in delay_widget
    /\ Cardinality(delay_widget) > 1
    /\ filtered_df # <<>>

\* C4: Delay % is 0 when the filtered rows hold no flight (also when no row
\* is left), and is 100 * sum(arr_del15) / sum(arr_flights) otherwise; it is
\* always a number.
C4_DelayPercentage ==
    Ran =>
      LET flights == SumInt(filtered_df, "arr_flights")
          delayed == SumInt(filtered_df, "arr_del15")
      IN /\ RatioIsFinite(delay_percentage)
         /\ flights = 0 => delay_percentage = <<0, 1>>
         /\ flights # 0 =>
               delay_percentage[1] * flights = 100 * delayed * delay_percentage[2]

C4_Witness ==
    /\ Ran
    /\ filtered_df # <<>>
    /\ SumInt(filtered_df, "arr_flights") = 0
    /\ delay_percentage = <<0, 1>>

\* the five cause durations of a row, a missing one counted as zero
FiveCauses(r) ==
    (IF IsNa(r.carrier_delay) THEN 0 ELSE r.carrier_delay[1])
    + (IF IsNa(r.weather_delay) THEN 0 ELSE r.weather_delay[1])
    + (IF IsNa(r.nas_delay) THEN 0 ELSE r.nas_delay[1])
    + (IF IsNa(r.security_delay) THEN 0 ELSE r.security_delay[1])
    + (IF IsNa(r.late_aircraft_delay) THEN 0 ELSE r.late_aircraft_delay[1])

\* C5: in every row of the base table and of every filtered view, after any
\* number of runs, Total_Delay is the sum of the five cause durations with a
\* missing one counted as zero.
C5_TotalDelayIsSum ==
    Ran =>
      \A r \in Rows(merged_df) \cup Rows(filtered_df) \cup Rows(geo_df) :
         r.Total_Delay = <<FiveCauses(r)>>

C5_Witness ==
    /\ runs >= 2
    /\ \E r \in Rows(filtered_df) :
          /\ \E c \in DelayCols : IsNa(r[c])
          /\ r.Total_Delay = <<10>>

\* C6: after any number of runs the base table is the table load_data built
\* from the files: the same rows, columns and values, with no column of the
\* filtered view written into it; the cached table is the same one.
C6_BaseTableUntouched ==
    Ran =>
      /\ merged_df = ReadAndMerge(delay_csv)
      /\ cache = <<merged_df>>
      /\ \A r \in Rows(merged_df) :
            "Selected_Delay" \notin DOMAIN r /\ "delay_rate" \notin DOMAIN r

C6_Witness ==
    /\ runs >= 3
    /\ filtered_df # <<>>
    /\ Len(filtered_df) < Len(merged_df)
    /\ \A r \in Rows(filtered_df) :
          "Selected_Delay" \in DOMAIN r /\ "delay_rate" \in DOMAIN r

\* C7: the trend view is produced exactly when the filtered rows hold more
\* than one distinct month; with one month or no row there is no trend table
\* and no trend chart, and a trend table that is produced is not empty.
C7_TrendOnlyForSeveralMonths ==
    Ran =>
      LET months == {r.month : r \in Rows(filtered_df)}
      IN /\ trend # <<>> <=> Cardinality(months) > 1
         /\ "trend_chart" \in emitted <=> trend # <<>>
         /\ trend # <<>> => Len(trend[1]) >= 2

C7_Witness ==
    /\ Ran
    /\ Len(filtered_df) = 2
    /\ Cardinality({r.month : r \in Rows(filtered_df)}) = 1
    /\ trend = <<>>
    /\ "trend_chart" \notin emitted

\* the minutes of the delay types T in row r
MinutesOf(r, T) ==
    (IF "Carrier Delay" \in T THEN Val(r.carrier_delay) ELSE 0)
    + (IF "Weather Delay" \in T THEN Val(r.weather_delay) ELSE 0)
    + (IF "NAS Delay" \in T THEN Val(r.nas_delay) ELSE 0)
    + (IF "Security Delay" \in T THEN Val(r.security_delay) ELSE 0)
    + (IF "Late Aircraft Delay" \in T THEN Val(r.late_aircraft_delay) ELSE 0)
    + (IF TotalKey \in T THEN Val(r.Total_Delay) ELSE 0)

\* Selected_Delay of the first k filtered rows, added up
RECURSIVE SelectedUpTo(_)
SelectedUpTo(k) ==
    IF k = 0 THEN 0 ELSE filtered_df[k].Selected_Delay[1] + SelectedUpTo(k - 1)

\* C8: Selected_Delay of every filtered row is the sum of the duration
\* columns the normalised delay-type selection names (Total_Delay when
\* "Total Delay" is selected), and the total-delay-minutes KPI is the sum of
\* Selected_Delay over the filtered rows.
C8_SelectedDelay ==
    Ran =>
      /\ \A r \in Rows(filtered_df) :
            /\ r.Selected_Delay = <<MinutesOf(r, selected_delay_types)>>
            /\ TotalKey \in selected_delay_types =>
                  r.Selected_Delay = r.Total_Delay
      /\ total_delay_time = SelectedUpTo(Len(filtered_df))

C8_Witness ==
    /\ Ran
    /\ selected_delay_types = {"Carrier Delay", "Weather Delay"}
    /\ Len(filtered_df) = 2
    /\ \A r \in Rows(filtered_df) : r.Selected_Delay = <<15>>
    /\ total_delay_time = 30

\* a filtered row is geo-eligible
Eligible(r) ==
    /\ \A t \in selected_delay_types : ~IsNa(r[delay_type_options[t]])
    /\ r.Selected_Delay[1] > 0

\* C9: the geo subset is exactly the filtered rows with no missing value in
\* a selected delay column and Selected_Delay > 0; the map is emitted exactly
\* when it is not empty, and the "no data available" warning otherwise (so
\* also when no row is left).
C9_GeoSubset ==
    Ran =>
      /\ Rows(geo_df) = {r \in Rows(filtered_df) : Eligible(r)}
      /\ Len(geo_df) =
            Cardinality({i \in 1..Len(filtered_df) : Eligible(filtered_df[i])})
      /\ "map" \in emitted <=> geo_df # <<>>
      /\ "no_data_warning" \in emitted <=> geo_df = <<>>
      /\ filtered_df = <<>> => "no_data_warning" \in emitted

C9_Witness ==
    /\ Ran
    /\ \E r \in Rows(filtered_df) :
          /\ r.Selected_Delay[1] > 0
          /\ \E t \in selected_delay_types : IsNa(r[delay_type_options[t]])
          /\ r \notin Rows(geo_df)
    /\ "no_data_warning" \in emitted

\* the rates arr_del15 / arr_flights of the filtered rows of airport name n
\* that have flights
RatesWithFlights(n) ==
    LET rows == SelectSeq(filtered_df,
                   LAMBDA r : r.airport_name = n /\ r.arr_flights # 0)
    IN [i \in 1..Len(rows) |-> Div(rows[i].arr_del15, rows[i].arr_flights)]

\* C10: every airport's value in the delay-rate view is the mean of
\* arr_del15 / arr_flights over its filtered rows with arr_flights # 0; it is
\* never undefined or infinite; the view holds at most 10 airports, in
\* descending order of the rate.
C10_AirportDelayRate ==
    Ran =>
      /\ Len(delay_rate_chart) <= TopN
      /\ \A i \in 1..Len(delay_rate_chart) :
            LET line == delay_rate_chart[i]
                qs == RatesWithFlights(line.airport_name)
                s == RatioSum(qs)
            IN /\ RatioIsFinite(line.delay_rate)
               /\ qs # <<>>
               /\ line.delay_rate[1] * s[2] * Len(qs) = s[1] * line.delay_rate[2]
      /\ \A i, j \in 1..Len(delay_rate_chart) :
            i < j => ~RatioGreater(delay_rate_chart[j].delay_rate,
                                   delay_rate_chart[i].delay_rate)

====
